---- MODULE Spec2Model ----
(***************************************************************************)
(* A model of app.py, the Streamlit Q&A knowledge base: the user file      *)
(* (users.yaml), the Q&A file (qa_data.json), the session state            *)
(* (subjects, current_user, authenticated, editing) and one action per     *)
(* form or button handler.  A Python str is a sequence of one-character    *)
(* strings, a Python dict is a sequence of key/value records in insertion  *)
(* order.                                                                  *)
(***************************************************************************)
EXTENDS Integers, Sequences, FiniteSets, TLC

(* ---------------------------------------------------------------- bounds *)

\* Values the wall clock takes: 1 .. MaxClock.
MaxClock == 2

\* Entries the Q&A file holds in total, over all subjects.
MaxEntries == 2

\* Register calls one process of the concurrent registration makes.
MaxCalls == 1

(* ---------------------------------------------------------------- inputs *)

None == "None"

Usernames == {"alice", "bob"}

\* Passwords typed in the forms; the last is below the form's minimum length.
PwSecret == <<"s", "e", "c", "r", "e", "t">>
PwHunter == <<"h", "u", "n", "t", "e", "r", "2">>
PwShort == <<"a", "b", "c">>
Passwords == {PwSecret, PwHunter, PwShort}

Emails == {"", "a@x.org"}

\* Subject/Topic field: "" is the field left empty.
SubjectNames == {"py", "math"}
SubjectInputs == SubjectNames \cup {""}

\* The subject typed on the pages of Spec.
OneSubject == "py"

\* Question and answer texts; <<>> is the field left empty.
TxtA == <<"a">>
TxtAb == <<"A", "b">>
Texts == {TxtA, TxtAb}
TextInputs == Texts \cup {<<>>}

\* The question/answer pairs typed on the Add page and in the edit form.
QATexts == {<<TxtA, TxtAb>>, <<TxtAb, TxtA>>}
QAInputs == QATexts \cup {<<<<>>, TxtA>>, <<TxtA, <<>>>>}

\* Search terms.
Terms == {<<>>, <<"a">>, <<"B">>, <<"a", "b">>, <<"b", "a">>}

\* The terms searched on the pages of SpecView.
ViewTerms == {<<>>, <<"B">>}

ExportFormats == {"CSV", "JSON", "PDF", "Markdown"}

Procs == {"p1", "p2"}

\* authentication_section: len(new_password) < 6
MinPasswordLen == 6

(* ----------------------------------------------------------------- state *)

VARIABLES
    users_file,     \* users.yaml: username -> record
    qa_file,        \* qa_data.json: the dict of subjects
    subjects,       \* st.session_state.subjects
    current_user,   \* st.session_state.current_user
    authenticated,  \* st.session_state.authenticated
    editing,        \* st.session_state.editing: <<>> when the key is absent, else <<buffer>>
    captured_by,    \* history: who was logged in when editing was filled
    now,            \* the wall clock, in seconds
    out,            \* the last step: its inputs and what it showed
    reg_pc,         \* concurrent registration: position of each process
    reg_args,       \* concurrent registration: arguments of the call
    reg_users,      \* concurrent registration: the local variable users
    reg_ret,        \* concurrent registration: return value of the last call
    reg_calls       \* concurrent registration: calls made by each process

vars == <<users_file, qa_file, subjects, current_user, authenticated, editing,
          captured_by, now, out, reg_pc, reg_args, reg_users, reg_ret, reg_calls>>

session == <<current_user, authenticated, editing, captured_by>>
stores == <<users_file, qa_file, subjects>>
regs == <<reg_pc, reg_args, reg_users, reg_ret, reg_calls>>

(* --------------------------------------------------------------- strings *)

\* str.lower() on one character.
lower_char(c) ==
    CASE c = "A" -> "a"
      [] c = "B" -> "b"
      [] OTHER -> c

\* str.lower()
lower(s) == [i \in 1..Len(s) |-> lower_char(s[i])]

\* s[at:].startswith(t), compared character by character
RECURSIVE starts_at(_, _, _, _)
starts_at(t, s, at, k) ==
    IF k > Len(t) THEN TRUE
    ELSE IF at + k - 1 > Len(s) THEN FALSE
    ELSE IF s[at + k - 1] # t[k] THEN FALSE
    ELSE starts_at(t, s, at, k + 1)

\* Python's `t in s` on str: t occurs in s at some offset; "" occurs in all.
RECURSIVE str_in_from(_, _, _)
str_in_from(t, s, at) ==
    IF at + Len(t) - 1 > Len(s) THEN FALSE
    ELSE IF starts_at(t, s, at, 1) THEN TRUE
    ELSE str_in_from(t, s, at + 1)

str_in(t, s) == str_in_from(t, s, 1)

\* datetime.now().strftime("%Y-%m-%d %H:%M:%S"): a non-empty string that
\* names the second.
strftime(t) == <<t>>

(* ------------------------------------------------------------ Python dict *)

\* An ordered dict is a sequence of [subject, qa_list] items.
dict_keys(d) == [i \in 1..Len(d) |-> d[i].subject]

has_key(d, k) == \E i \in 1..Len(d) : d[i].subject = k

key_index(d, k) == CHOOSE i \in 1..Len(d) : d[i].subject = k

dict_get(d, k) == d[key_index(d, k)].qa_list

\* d[k] = v: replaces the value in place, or appends a new key.
dict_set(d, k, v) ==
    IF has_key(d, k)
    THEN [d EXCEPT ![key_index(d, k)].qa_list = v]
    ELSE Append(d, [subject |-> k, qa_list |-> v])

\* del l[idx], idx counted from 1
list_del(l, idx) == [i \in 1..(Len(l) - 1) |-> IF i < idx THEN l[i] ELSE l[i + 1]]

RECURSIVE total_entries(_)
total_entries(d) ==
    IF d = <<>> THEN 0 ELSE Len(Head(d).qa_list) + total_entries(Tail(d))

(* ------------------------------------------------------------ persistence *)

\* load_data(): the parsed JSON document.
load_data == qa_file

\* save_data(data): the document json.dump writes, as json.load reads it back.
save_data(data) == data

\* load_users(): the parsed YAML document, {} when the file is empty.
load_users == users_file

\* save_users that keeps the records the file holds and the dict lacks.
save_users_merged(users) ==
    [u \in (DOMAIN users) \cup (DOMAIN users_file) |->
        IF u \in DOMAIN users THEN users[u] ELSE users_file[u]]

\* save_users(users): the whole file is rewritten with the dict.
save_users(users) == users

(* -------------------------------------------------------------- user store *)

\* hashlib.sha256(password.encode()).hexdigest()
hash_password(password) == [sha256 |-> password]

\* The record register_user stores under users[username].
new_user_record(password, email, t) ==
    [password |-> hash_password(password), email |-> email, created_at |-> strftime(t)]

\* users[username] = {...} on the loaded dict
users_put(users, username, rec) ==
    [u \in (DOMAIN users) \cup {username} |-> IF u = username THEN rec ELSE users[u]]

\* register_user without the test of line 56: the record is always written.
register_user_overwrite(file, username, password, email, t) ==
    [ret |-> username \notin DOMAIN file,
     file |-> users_put(file, username, new_user_record(password, email, t))]

\* register_user(username, password, email) run to completion on the file
\* content `file`: the return value and the file content afterwards.
register_user(file, username, password, email, t) ==
    LET users == file IN
    IF username \in DOMAIN users
    THEN [ret |-> FALSE, file |-> file]
    ELSE [ret |-> TRUE,
          file |-> save_users(users_put(users, username, new_user_record(password, email, t)))]

\* verify_user without the comparison of line 69: a known username suffices.
verify_user_known(username, password) == username \in DOMAIN users_file

\* verify_user(username, password)
verify_user(username, password) ==
    LET users == load_users IN
    IF username \in DOMAIN users
    THEN users[username].password = hash_password(password)
    ELSE FALSE


(* ---------------------------------------------------------------- Q&A store *)

\* [qa for qa in qa_list if qa.get("created_by") == current_user]
owned(qa_list, user) == SelectSeq(qa_list, LAMBDA qa : qa.created_by = user)

\* get_user_data without the created_by test of line 138.
get_user_data_unfiltered(all_data, user) ==
    SelectSeq(all_data, LAMBDA item : item.qa_list # <<>>)

\* get_user_data(): the subjects of all_data that hold an entry of the
\* current user, each with the user's entries in list order.
RECURSIVE get_user_data(_, _)
get_user_data(all_data, user) ==
    IF all_data = <<>> THEN <<>>
    ELSE LET item == Head(all_data)
             user_qa == owned(item.qa_list, user)
             rest == get_user_data(Tail(all_data), user)
         IN IF user_qa # <<>>
            THEN <<[subject |-> item.subject, qa_list |-> user_qa]>> \o rest
            ELSE rest

\* add_qa with the new entry inserted at the head of the list.
add_entry_front(data, subject, question, answer, user, t) ==
    LET with_key == IF has_key(data, subject) THEN data ELSE dict_set(data, subject, <<>>)
        new_entry == [question |-> question, answer |-> answer,
                      timestamp |-> strftime(t), created_by |-> user]
    IN dict_set(with_key, subject, <<new_entry>> \o dict_get(with_key, subject))

\* add_qa, lines 171-180: the subject is created when absent and the new
\* entry is appended to its list.
add_entry(data, subject, question, answer, user, t) ==
    LET with_key == IF has_key(data, subject) THEN data ELSE dict_set(data, subject, <<>>)
        new_entry == [question |-> question, answer |-> answer,
                      timestamp |-> strftime(t), created_by |-> user]
    IN dict_set(with_key, subject, Append(dict_get(with_key, subject), new_entry))

\* The Delete scan as a filter: every matching entry is dropped.
delete_loop_all(full_qa_list, qa, user, idx) ==
    LET keep(item) == ~(/\ item.question = qa.question
                        /\ item.answer = qa.answer
                        /\ item.created_by = user)
    IN [saved |-> SelectSeq(full_qa_list, keep) # full_qa_list,
        list |-> SelectSeq(full_qa_list, keep)]

\* view_qa, lines 229-237: the scan of the Delete button over the full list,
\* from index idx on; the list afterwards and whether save_data ran.
RECURSIVE delete_loop(_, _, _, _)
delete_loop(full_qa_list, qa, user, idx) ==
    IF idx > Len(full_qa_list) THEN [saved |-> FALSE, list |-> full_qa_list]
    ELSE IF /\ full_qa_list[idx].question = qa.question
            /\ full_qa_list[idx].answer = qa.answer
            /\ full_qa_list[idx].created_by = user
         THEN [saved |-> TRUE, list |-> list_del(full_qa_list, idx)]
         ELSE delete_loop(full_qa_list, qa, user, idx + 1)

\* The Save Changes scan without the created_by test of line 262.
RECURSIVE edit_loop_any_owner(_, _, _, _, _, _, _)
edit_loop_any_owner(full_qa_list, buffer, user, new_question, new_answer, t, idx) ==
    IF idx > Len(full_qa_list) THEN [saved |-> FALSE, idx |-> 0, list |-> full_qa_list]
    ELSE IF /\ full_qa_list[idx].question = buffer.question
            /\ full_qa_list[idx].answer = buffer.answer
         THEN [saved |-> TRUE, idx |-> idx,
               list |-> [full_qa_list EXCEPT ![idx].question = new_question,
                                             ![idx].answer = new_answer,
                                             ![idx].timestamp = strftime(t)]]
         ELSE edit_loop_any_owner(full_qa_list, buffer, user, new_question, new_answer,
                                  t, idx + 1)

\* The Save Changes scan that replaces the matched entry by a new one at the
\* end of the list.
RECURSIVE edit_loop_reappend(_, _, _, _, _, _, _)
edit_loop_reappend(full_qa_list, buffer, user, new_question, new_answer, t, idx) ==
    IF idx > Len(full_qa_list) THEN [saved |-> FALSE, idx |-> 0, list |-> full_qa_list]
    ELSE IF /\ full_qa_list[idx].question = buffer.question
            /\ full_qa_list[idx].answer = buffer.answer
            /\ full_qa_list[idx].created_by = user
         THEN [saved |-> TRUE, idx |-> idx,
               list |-> Append(list_del(full_qa_list, idx),
                               [question |-> new_question, answer |-> new_answer,
                                timestamp |-> strftime(t), created_by |-> user])]
         ELSE edit_loop_reappend(full_qa_list, buffer, user, new_question, new_answer,
                                 t, idx + 1)

\* view_qa, lines 258-267: the scan of Save Changes over the full list, from
\* index idx on; the list afterwards, whether save_data ran, and the index
\* written (0 for none).
RECURSIVE edit_loop(_, _, _, _, _, _, _)
edit_loop(full_qa_list, buffer, user, new_question, new_answer, t, idx) ==
    IF idx > Len(full_qa_list) THEN [saved |-> FALSE, idx |-> 0, list |-> full_qa_list]
    ELSE IF /\ full_qa_list[idx].question = buffer.question
            /\ full_qa_list[idx].answer = buffer.answer
            /\ full_qa_list[idx].created_by = user
         THEN [saved |-> TRUE, idx |-> idx,
               list |-> [full_qa_list EXCEPT ![idx].question = new_question,
                                             ![idx].answer = new_answer,
                                             ![idx].timestamp = strftime(t)]]
         ELSE edit_loop(full_qa_list, buffer, user, new_question, new_answer, t, idx + 1)

\* The search test with the term compared as typed.
search_match_term_as_typed(search_term, qa) ==
    \/ str_in(search_term, lower(qa.question))
    \/ str_in(search_term, lower(qa.answer))

\* search_qa, lines 286-287: the test one entry passes.
search_match(search_term, qa) ==
    \/ str_in(lower(search_term), lower(qa.question))
    \/ str_in(lower(search_term), lower(qa.answer))

\* The row built of one entry at lines 288-293 and 338-343.
row(subject, qa) ==
    [Subject |-> subject, Question |-> qa.question, Answer |-> qa.answer,
     Date |-> qa.timestamp]

rows_of(subject, qa_list) == [i \in 1..Len(qa_list) |-> row(subject, qa_list[i])]

\* search_qa, lines 283-293: results, over the subjects of user_data in order.
RECURSIVE search_results(_, _)
search_results(user_data, search_term) ==
    IF user_data = <<>> THEN <<>>
    ELSE LET item == Head(user_data)
             hits == SelectSeq(item.qa_list, LAMBDA qa : search_match(search_term, qa))
         IN rows_of(item.subject, hits) \o search_results(Tail(user_data), search_term)

(* ------------------------------------------------------------------ export *)

\* export_qa, line 332: {subj: user_data[subj] for subj in selected_subjects}
export_data_of(user_data, selected_subjects) ==
    [i \in 1..Len(selected_subjects) |->
        [subject |-> selected_subjects[i],
         qa_list |-> dict_get(user_data, selected_subjects[i])]]

\* CSV, lines 335-345: one row per entry.
RECURSIVE csv_rows(_)
csv_rows(export_data) ==
    IF export_data = <<>> THEN <<>>
    ELSE rows_of(Head(export_data).subject, Head(export_data).qa_list)
         \o csv_rows(Tail(export_data))

\* generate_pdf, lines 82-91, and Markdown, lines 376-381: one section per
\* subject, one block per entry with its question, answer and date.
sections(export_data) ==
    [i \in 1..Len(export_data) |->
        [heading |-> export_data[i].subject,
         blocks |-> [j \in 1..Len(export_data[i].qa_list) |->
                        [question |-> export_data[i].qa_list[j].question,
                         answer |-> export_data[i].qa_list[j].answer,
                         date |-> export_data[i].qa_list[j].timestamp]]]]

\* The payload of the download button for each format, lines 334-387.
export_payload(export_format, export_data, username) ==
    CASE export_format = "CSV" -> [format |-> "CSV", rows |-> csv_rows(export_data)]
      [] export_format = "JSON" -> [format |-> "JSON", data |-> export_data]
      [] export_format = "PDF" ->
            [format |-> "PDF", title |-> username, sections |-> sections(export_data)]
      [] export_format = "Markdown" ->
            [format |-> "Markdown", title |-> username, sections |-> sections(export_data)]

(* ----------------------------------------------------------------- Init *)

EmptyUsers == [u \in {} |-> None]

\* "editing" not in st.session_state
NoEditing == <<>>

NoArgs == [username |-> None, password |-> <<>>, email |-> ""]

Init ==
    /\ users_file = EmptyUsers
    /\ qa_file = <<>>
    /\ subjects = <<>>
    /\ current_user = None
    /\ authenticated = FALSE
    /\ editing = NoEditing
    /\ captured_by = None
    /\ now = 1
    /\ out = [op |-> "start"]
    /\ reg_pc = [p \in Procs |-> "idle"]
    /\ reg_args = [p \in Procs |-> NoArgs]
    /\ reg_users = [p \in Procs |-> EmptyUsers]
    /\ reg_ret = [p \in Procs |-> FALSE]
    /\ reg_calls = [p \in Procs |-> 0]

\* A second passes on the wall clock.
Tick ==
    /\ now < MaxClock
    /\ now' = now + 1
    /\ out' = [op |-> "tick"]
    /\ UNCHANGED <<stores, session, regs>>

(* --------------------------------------------------------- authentication *)

\* authentication_section, lines 107-113: the Login form is submitted.
Login(username, password) ==
    /\ ~authenticated
    /\ subjects' = load_data
    /\ IF verify_user(username, password)
       THEN /\ authenticated' = TRUE
            /\ current_user' = username
            /\ out' = [op |-> "login", username |-> username, password |-> password,
                       ok |-> TRUE, users_before |-> users_file, qa_before |-> qa_file]
       ELSE /\ UNCHANGED <<authenticated, current_user>>
            /\ out' = [op |-> "login", username |-> username, password |-> password,
                       ok |-> FALSE, users_before |-> users_file, qa_before |-> qa_file]
    /\ UNCHANGED <<users_file, qa_file, editing, captured_by, now, regs>>

\* authentication_section, lines 122-131: the Register form is submitted.
Register(new_username, new_password, confirm_password, email) ==
    /\ ~authenticated
    /\ subjects' = load_data
    /\ IF new_password # confirm_password
       THEN /\ out' = [op |-> "register", username |-> new_username, called |-> FALSE,
                       error |-> "Passwords don't match!", users_before |-> users_file]
            /\ UNCHANGED users_file
       ELSE IF Len(new_password) < MinPasswordLen
       THEN /\ out' = [op |-> "register", username |-> new_username, called |-> FALSE,
                       error |-> "Password must be at least 6 characters",
                       users_before |-> users_file]
            /\ UNCHANGED users_file
       ELSE LET r == register_user(load_users, new_username, new_password, email, now)
            IN /\ users_file' = r.file
               /\ out' = [op |-> "register", username |-> new_username, called |-> TRUE,
                          ret |-> r.ret, password |-> new_password, email |-> email,
                          error |-> IF r.ret THEN "" ELSE "Username already exists",
                          users_before |-> users_file]
    /\ UNCHANGED <<qa_file, session, now, regs>>

\* main_app, lines 152-155: the Logout button.
Logout ==
    /\ authenticated
    /\ subjects' = load_data
    /\ authenticated' = FALSE
    /\ current_user' = None
    /\ out' = [op |-> "logout"]
    /\ UNCHANGED <<users_file, qa_file, editing, captured_by, now, regs>>

(* ------------------------------------------------------------------ pages *)

\* add_qa, lines 167-183: the Save Q&A button.
AddQA(subject, question, answer) ==
    /\ authenticated
    /\ LET loaded == load_data IN
       IF subject = "" \/ question = <<>> \/ answer = <<>>
       THEN /\ subjects' = loaded
            /\ UNCHANGED qa_file
            /\ out' = [op |-> "add", ok |-> FALSE, user |-> current_user]
       ELSE /\ total_entries(loaded) < MaxEntries
            /\ LET data == add_entry(loaded, subject, question, answer, current_user, now)
               IN /\ subjects' = data
                  /\ qa_file' = save_data(data)
            /\ out' = [op |-> "add", ok |-> TRUE, subject |-> subject, user |-> current_user,
                       question |-> question, answer |-> answer]
    /\ UNCHANGED <<users_file, session, now, regs>>

\* view_qa, lines 192-214: the page lists the user's subjects and entries.
ViewQA ==
    /\ authenticated
    /\ subjects' = load_data
    /\ out' = [op |-> "view", user |-> current_user,
               user_data |-> get_user_data(load_data, current_user)]
    /\ UNCHANGED <<users_file, qa_file, session, now, regs>>

\* view_qa, lines 219-225: the Edit button of entry i of the selected subject.
\* The buffer's "index" (line 222) is read nowhere in the program and is left
\* out of the buffer.
EditClick(selected_subject, i) ==
    /\ authenticated
    /\ LET loaded == load_data
           user_data == get_user_data(loaded, current_user)
       IN /\ user_data # <<>>
          /\ has_key(user_data, selected_subject)
          /\ i \in 1..Len(dict_get(user_data, selected_subject))
          /\ LET qa == dict_get(user_data, selected_subject)[i]
             IN editing' = <<[subject |-> selected_subject,
                              question |-> qa.question, answer |-> qa.answer]>>
          /\ captured_by' = current_user
          /\ subjects' = loaded
          /\ out' = [op |-> "edit_click", user |-> current_user]
    /\ UNCHANGED <<users_file, qa_file, current_user, authenticated, now, regs>>

\* view_qa, lines 227-237: the Delete button of entry i of the selected subject.
DeleteClick(selected_subject, i) ==
    /\ authenticated
    /\ LET loaded == load_data
           user_data == get_user_data(loaded, current_user)
       IN /\ user_data # <<>>
          /\ has_key(user_data, selected_subject)
          /\ i \in 1..Len(dict_get(user_data, selected_subject))
          /\ LET qa == dict_get(user_data, selected_subject)[i]
                 full_qa_list == dict_get(loaded, selected_subject)
                 r == delete_loop(full_qa_list, qa, current_user, 1)
                 data == dict_set(loaded, selected_subject, r.list)
             IN /\ subjects' = data
                /\ qa_file' = IF r.saved THEN save_data(data) ELSE qa_file
                /\ out' = [op |-> "delete", user |-> current_user,
                           subject |-> selected_subject, shown |-> qa,
                           saved |-> r.saved]
    /\ UNCHANGED <<users_file, session, now, regs>>

\* view_qa, lines 240-270: Save Changes of the edit form.
SaveChanges(new_question, new_answer) ==
    /\ authenticated
    /\ editing # NoEditing
    /\ LET loaded == load_data
           user_data == get_user_data(loaded, current_user)
           buffer == editing[1]
           subject == buffer.subject
           full_qa_list == dict_get(loaded, subject)
           r == edit_loop(full_qa_list, buffer, current_user, new_question, new_answer, now, 1)
           data == dict_set(loaded, subject, r.list)
       IN /\ user_data # <<>>
          /\ subjects' = data
          /\ qa_file' = IF r.saved THEN save_data(data) ELSE qa_file
          /\ out' = [op |-> "save_changes", user |-> current_user, buffer |-> buffer,
                     buffer_of |-> captured_by, new_question |-> new_question,
                     new_answer |-> new_answer, saved |-> r.saved, idx |-> r.idx,
                     at |-> now]
    /\ editing' = NoEditing
    /\ captured_by' = None
    /\ UNCHANGED <<users_file, current_user, authenticated, now, regs>>

\* view_qa, lines 272-274: Cancel of the edit form.
CancelEdit ==
    /\ authenticated
    /\ editing # NoEditing
    /\ get_user_data(load_data, current_user) # <<>>
    /\ subjects' = load_data
    /\ editing' = NoEditing
    /\ captured_by' = None
    /\ out' = [op |-> "cancel_edit", user |-> current_user]
    /\ UNCHANGED <<users_file, qa_file, current_user, authenticated, now, regs>>

\* search_qa, lines 277-309: a term is entered on the Search page.
Search(search_term) ==
    /\ authenticated
    /\ subjects' = load_data
    /\ IF search_term # <<>>
       THEN out' = [op |-> "search", user |-> current_user, term |-> search_term,
                    searched |-> TRUE,
                    results |-> search_results(get_user_data(load_data, current_user),
                                               search_term)]
       ELSE out' = [op |-> "search", user |-> current_user, term |-> search_term,
                    searched |-> FALSE, results |-> <<>>]
    /\ UNCHANGED <<users_file, qa_file, session, now, regs>>

\* The orders in which st.multiselect can hold a non-empty selection of keys.
Selections(keys) ==
    {sel \in UNION {[1..n -> keys] : n \in 1..Cardinality(keys)} :
        \A i, j \in 1..Len(sel) : i # j => sel[i] # sel[j]}

\* export_qa, lines 312-387: Generate Export.
Export(export_format, selected_subjects) ==
    /\ authenticated
    /\ LET user_data == get_user_data(load_data, current_user)
       IN /\ user_data # <<>>
          /\ selected_subjects \in Selections({user_data[i].subject : i \in 1..Len(user_data)})
          /\ out' = [op |-> "export", user |-> current_user,
                     selected |-> selected_subjects,
                     payload |-> export_payload(export_format,
                                    export_data_of(user_data, selected_subjects),
                                    current_user)]
    /\ subjects' = load_data
    /\ UNCHANGED <<users_file, qa_file, session, now, regs>>


(* ------------------------------------------------ concurrent registration *)

\* register_user, lines 55-62, in process p: the file is loaded, and the call
\* either returns False or adds the new record to its local dict.
RegLoad(p, username, password, email) ==
    /\ reg_pc[p] # "save"
    /\ reg_calls[p] < MaxCalls
    /\ reg_calls' = [reg_calls EXCEPT ![p] = @ + 1]
    /\ reg_args' = [reg_args EXCEPT ![p] =
                        [username |-> username, password |-> password, email |-> email]]
    /\ LET users == load_users IN
       IF username \in DOMAIN users
       THEN /\ reg_users' = [reg_users EXCEPT ![p] = users]
            /\ reg_ret' = [reg_ret EXCEPT ![p] = FALSE]
            /\ reg_pc' = [reg_pc EXCEPT ![p] = "returned"]
       ELSE /\ reg_users' = [reg_users EXCEPT ![p] =
                                users_put(users, username,
                                          new_user_record(password, email, now))]
            /\ reg_ret' = reg_ret
            /\ reg_pc' = [reg_pc EXCEPT ![p] = "save"]
    /\ out' = [op |-> "reg_load", proc |-> p]
    /\ UNCHANGED <<stores, session, now>>

\* register_user, lines 63-64, in process p: the local dict is written over
\* the file and the call returns True.
RegSave(p) ==
    /\ reg_pc[p] = "save"
    /\ users_file' = save_users(reg_users[p])
    /\ reg_ret' = [reg_ret EXCEPT ![p] = TRUE]
    /\ reg_pc' = [reg_pc EXCEPT ![p] = "returned"]
    /\ out' = [op |-> "reg_save", proc |-> p, users_before |-> users_file]
    /\ UNCHANGED <<qa_file, subjects, session, now, reg_args, reg_users, reg_calls>>

(* ---------------------------------------------------------- specification *)

\* The forms and buttons that change the session or the Q&A store, with the
\* wall clock running, on entries saved under one subject.
Next ==
    \/ Tick
    \/ \E u \in Usernames : Login(u, PwSecret)
    \/ \E u \in Usernames : Register(u, PwSecret, PwSecret, "")
    \/ Logout
    \/ \E s \in {OneSubject, ""}, qa \in QAInputs : AddQA(s, qa[1], qa[2])
    \/ \E i \in 1..MaxEntries : EditClick(OneSubject, i)
    \/ \E i \in 1..MaxEntries : DeleteClick(OneSubject, i)
    \/ \E qa \in QATexts : SaveChanges(qa[1], qa[2])
    \/ CancelEdit

Spec == Init /\ [][Next]_vars

\* The pages that only show data, after any of the forms and buttons, all
\* within one second of the wall clock.
NextView ==
    \/ \E u \in Usernames : Login(u, PwSecret)
    \/ \E u \in Usernames : Register(u, PwSecret, PwSecret, "")
    \/ Logout
    \/ \E s \in SubjectInputs, qa \in QAInputs : AddQA(s, qa[1], qa[2])
    \/ \E s \in SubjectNames, i \in 1..MaxEntries : EditClick(s, i)
    \/ \E s \in SubjectNames, i \in 1..MaxEntries : DeleteClick(s, i)
    \/ \E qa \in QATexts : SaveChanges(qa[1], qa[2])
    \/ CancelEdit
    \/ ViewQA
    \/ \E t \in ViewTerms : Search(t)
    \/ \E f \in ExportFormats, sel \in Selections(SubjectNames) : Export(f, sel)

SpecView == Init /\ [][NextView]_vars

\* The login and registration forms with every input, and one entry saved.
NextAuth ==
    \/ Tick
    \/ \E u \in Usernames, p \in Passwords : Login(u, p)
    \/ \E u \in Usernames, p, c \in Passwords, e \in Emails : Register(u, p, c, e)
    \/ Logout
    \/ AddQA("py", TxtA, TxtAb)

SpecAuth == Init /\ [][NextAuth]_vars

\* The Search page with every term, over entries of every text, all within
\* one second of the wall clock.
NextSearch ==
    \/ \E u \in Usernames : Login(u, PwSecret)
    \/ \E u \in Usernames : Register(u, PwSecret, PwSecret, "")
    \/ Logout
    \/ \E s \in SubjectNames, q, a \in Texts : AddQA(s, q, a)
    \/ \E s \in SubjectNames, i \in 1..MaxEntries : DeleteClick(s, i)
    \/ \E t \in Terms : Search(t)

SpecSearch == Init /\ [][NextSearch]_vars

\* Two sessions register at once: each call is a load step and a save step.
NextReg ==
    \/ Tick
    \/ \E p \in Procs, u \in Usernames, pw \in {PwSecret, PwHunter}, e \in Emails :
          RegLoad(p, u, pw, e)
    \/ \E p \in Procs : RegSave(p)

SpecReg == Init /\ [][NextReg]_vars

(* ------------------------------------------------------------------ claims *)

\* C2: when the Register form calls register_user with a username that is
\* already in the user file, the call returns False and the user file is
\* what it was: the record stored under that username keeps its password
\* hash, email and created_at, whatever password and email were supplied.
C2_DuplicateRegistrationRejected ==
    (out.op = "register" /\ out.called /\ out.username \in DOMAIN out.users_before)
        => /\ out.ret = FALSE
           /\ users_file = out.users_before
           /\ users_file[out.username] = out.users_before[out.username]

\* C2 witness: a second registration of a stored username, with another
\* password and another email, at a later second, has returned.
C2_Witness ==
    /\ out.op = "register" /\ out.called
    /\ out.username \in DOMAIN out.users_before
    /\ out.users_before[out.username].password # hash_password(out.password)
    /\ out.users_before[out.username].email # out.email
    /\ out.users_before[out.username].created_at # strftime(now)

\* C3: the Login form's verify_user(username, password) is true exactly when
\* the username is in the user file and the stored hash is the hash of the
\* supplied password, and it changes neither the user file nor the Q&A file.
C3_VerifyIffHashMatches ==
    out.op = "login"
        => /\ out.ok <=> (\E u \in DOMAIN users_file :
                             /\ u = out.username
                             /\ users_file[u].password = hash_password(out.password))
           /\ out.ok => (authenticated /\ current_user = out.username)
           /\ users_file = out.users_before
           /\ qa_file = out.qa_before

\* C3 witness: a registered username was refused with a wrong password while
\* the Q&A file holds an entry.
C3_Witness ==
    /\ out.op = "login" /\ ~out.ok
    /\ out.username \in DOMAIN users_file
    /\ qa_file # <<>>

\* The list stored under a subject, empty when the subject is absent.
ListOf(d, s) == IF has_key(d, s) THEN dict_get(d, s) ELSE <<>>

\* Every subject but s is stored as before, at the same place of the dict.
OthersUntouched(pre, post, s) ==
    /\ Len(post) >= Len(pre)
    /\ \A i \in 1..Len(pre) :
          /\ post[i].subject = pre[i].subject
          /\ pre[i].subject # s => post[i].qa_list = pre[i].qa_list
    /\ \A i \in (Len(pre) + 1)..Len(post) : post[i].subject = s

\* Entry e is the one the Delete or Save Changes scan looks for.
IsTarget(e, question, answer, user) ==
    e.question = question /\ e.answer = answer /\ e.created_by = user

\* k is the first place of list l that holds the target.
FirstTarget(l, k, question, answer, user) ==
    /\ k \in 1..Len(l)
    /\ IsTarget(l[k], question, answer, user)
    /\ \A j \in 1..(k - 1) : ~IsTarget(l[j], question, answer, user)

\* C4: a Delete click on an entry shown to the logged-in user removes exactly
\* one entry of the subject's list, the first in list order that has the shown
\* question and answer and the current user as creator; the list is one
\* shorter even when the entry has duplicates, the other entries keep their
\* order, and the other subjects are left alone.
C4_DeleteRemovesFirstMatchOnly ==
    [][out'.op = "delete"
        => LET pre == ListOf(qa_file, out'.subject)
               post == ListOf(qa_file', out'.subject)
           IN /\ out'.saved
              /\ Len(post) = Len(pre) - 1
              /\ \E k \in 1..Len(pre) :
                    /\ FirstTarget(pre, k, out'.shown.question, out'.shown.answer,
                                   out'.user)
                    /\ \A i \in 1..Len(post) :
                          post[i] = IF i < k THEN pre[i] ELSE pre[i + 1]
              /\ OthersUntouched(qa_file, qa_file', out'.subject)
              /\ Len(qa_file') = Len(qa_file)
              /\ subjects' = qa_file']_vars

\* C4 witness: Delete was clicked on an entry the list held twice, saved at
\* different seconds: one of the two is left.
C4_Witness ==
    /\ out.op = "delete"
    /\ LET post == ListOf(qa_file, out.subject)
       IN \E i \in 1..Len(post) :
             /\ IsTarget(post[i], out.shown.question, out.shown.answer, out.user)
             /\ post[i].timestamp # out.shown.timestamp

\* C5: Save Changes rewrites the question, answer and timestamp of the first
\* entry of the buffer's subject that has the buffer's question and answer
\* and the current user as creator; the entry keeps its index and creator,
\* the list keeps its length and its other entries, the other subjects are
\* left alone.  With no such entry the Q&A store is what it was.
C5_EditInPlaceOrNothing ==
    [][out'.op = "save_changes"
        => LET pre == ListOf(qa_file, out'.buffer.subject)
               post == ListOf(qa_file', out'.buffer.subject)
               hit == \E k \in 1..Len(pre) :
                         IsTarget(pre[k], out'.buffer.question, out'.buffer.answer,
                                  out'.user)
           IN /\ out'.saved <=> hit
              /\ Len(post) = Len(pre)
              /\ Len(qa_file') = Len(qa_file)
              /\ OthersUntouched(qa_file, qa_file', out'.buffer.subject)
              /\ subjects' = qa_file'
              /\ hit => \E k \in 1..Len(pre) :
                    /\ FirstTarget(pre, k, out'.buffer.question, out'.buffer.answer,
                                   out'.user)
                    /\ post[k] = [question |-> out'.new_question,
                                  answer |-> out'.new_answer,
                                  timestamp |-> strftime(now),
                                  created_by |-> pre[k].created_by]
                    /\ \A i \in 1..Len(pre) : i # k => post[i] = pre[i]
              /\ ~hit => qa_file' = qa_file]_vars

\* C5 witness: Save Changes rewrote the question of an entry that is not the
\* last of its list.
C5_Witness ==
    /\ out.op = "save_changes" /\ out.saved
    /\ out.idx < Len(ListOf(qa_file, out.buffer.subject))
    /\ out.new_question # out.buffer.question

\* C6: Save Q&A with subject, question and answer filled in appends one entry
\* at the end of the subject's list, creating the subject when absent, with
\* the current user as creator and a non-empty timestamp, so what the user
\* lists under that subject is what was listed before followed by that entry;
\* with a field left empty the store is what it was.
C6_AddAppendsOwnedEntry ==
    [][out'.op = "add"
        => IF out'.ok
           THEN LET pre == ListOf(qa_file, out'.subject)
                    post == ListOf(qa_file', out'.subject)
                    mine == ListOf(get_user_data(subjects', out'.user), out'.subject)
                    before == ListOf(get_user_data(qa_file, out'.user), out'.subject)
                IN /\ has_key(qa_file', out'.subject)
                   /\ Len(post) = Len(pre) + 1
                   /\ \A i \in 1..Len(pre) : post[i] = pre[i]
                   /\ post[Len(post)].question = out'.question
                   /\ post[Len(post)].answer = out'.answer
                   /\ post[Len(post)].created_by = out'.user
                   /\ post[Len(post)].timestamp # <<>>
                   /\ mine = Append(before, post[Len(post)])
                   /\ OthersUntouched(qa_file, qa_file', out'.subject)
                   /\ subjects' = qa_file'
           ELSE qa_file' = qa_file /\ subjects' = qa_file]_vars

\* C6 witness: an entry was saved under a subject whose list starts with an
\* entry of another user.
C6_Witness ==
    /\ out.op = "add" /\ out.ok
    /\ LET post == ListOf(qa_file, out.subject)
       IN /\ Len(post) >= 2
          /\ post[1].created_by # out.user

\* C9: a Delete click or Save Changes of the logged-in user leaves, in every
\* subject, the entries of every other user as they were, in the same order.
C9_OthersEntriesUntouched ==
    [][out'.op \in {"delete", "save_changes"}
        => /\ Len(qa_file') = Len(qa_file)
           /\ \A i \in 1..Len(qa_file), v \in Usernames :
                 v # out'.user =>
                    /\ qa_file'[i].subject = qa_file[i].subject
                    /\ owned(qa_file'[i].qa_list, v) = owned(qa_file[i].qa_list, v)]_vars

\* C9 witness: Save Changes ran on a buffer filled by another user, over a
\* list where that user holds an entry with the buffer's question and answer,
\* and it rewrote an entry.
C9_Witness ==
    /\ out.op = "save_changes" /\ out.saved
    /\ out.buffer_of # out.user
    /\ LET post == ListOf(qa_file, out.buffer.subject)
       IN \E k \in 1..Len(post) :
             IsTarget(post[k], out.buffer.question, out.buffer.answer, out.buffer_of)

\* C10: whenever a user is logged in and an edit buffer is pending, the
\* buffer was filled from an entry of that user.
C10_BufferBelongsToCurrentUser ==
    (authenticated /\ editing # NoEditing) => captured_by = current_user

\* How many places of sequence l hold a value that passes P.
Count(l, P(_)) == Cardinality({i \in 1..Len(l) : P(l[i])})

\* The entries of a list of [subject, qa_list] items, as rows.
RECURSIVE ItemRows(_)
ItemRows(items) ==
    IF items = <<>> THEN <<>>
    ELSE [j \in 1..Len(Head(items).qa_list) |->
             [Subject |-> Head(items).subject,
              Question |-> Head(items).qa_list[j].question,
              Answer |-> Head(items).qa_list[j].answer,
              Date |-> Head(items).qa_list[j].timestamp]]
         \o ItemRows(Tail(items))

\* The entries of the sections of a document, as rows.
RECURSIVE SectionRows(_)
SectionRows(secs) ==
    IF secs = <<>> THEN <<>>
    ELSE [j \in 1..Len(Head(secs).blocks) |->
             [Subject |-> Head(secs).heading,
              Question |-> Head(secs).blocks[j].question,
              Answer |-> Head(secs).blocks[j].answer,
              Date |-> Head(secs).blocks[j].date]]
         \o SectionRows(Tail(secs))

\* The entries an export payload shows, as rows.
PayloadRows(payload) ==
    CASE payload.format = "CSV" -> payload.rows
      [] payload.format = "JSON" -> ItemRows(payload.data)
      [] OTHER -> SectionRows(payload.sections)

\* Each row shown stands for an entry of user u stored under the row's
\* subject, and no row is shown more often than u stores such an entry.
RowsAreOwn(rows, u) ==
    \A n \in 1..Len(rows) :
        LET r == rows[n]
            same(x) == x = r
            source(e) == /\ e.created_by = u
                         /\ e.question = r.Question
                         /\ e.answer = r.Answer
                         /\ e.timestamp = r.Date
        IN Count(rows, same) <= Count(ListOf(subjects, r.Subject), source)

\* C1: what the logged-in user gets from the View page, from Search and from
\* Generate Export holds only entries the user created, and the View page
\* holds every one of them, each as often as it is stored, also when another
\* user stores entries under the same subject.
C1_OnlyOwnEntriesVisible ==
    /\ out.op = "view" =>
          /\ \A n \in 1..Len(out.user_data) :
                \A k \in 1..Len(out.user_data[n].qa_list) :
                    out.user_data[n].qa_list[k].created_by = out.user
          /\ RowsAreOwn(ItemRows(out.user_data), out.user)
          /\ \A i \in 1..Len(subjects) :
                \A k \in 1..Len(subjects[i].qa_list) :
                    LET e == subjects[i].qa_list[k]
                        same(x) == x = e
                    IN e.created_by = out.user =>
                          Count(ListOf(out.user_data, subjects[i].subject), same)
                              = Count(subjects[i].qa_list, same)
    /\ out.op = "search" => RowsAreOwn(out.results, out.user)
    /\ out.op = "export" =>
          /\ RowsAreOwn(PayloadRows(out.payload), out.user)
          /\ out.payload.format = "JSON" =>
                \A n \in 1..Len(out.payload.data) :
                    \A k \in 1..Len(out.payload.data[n].qa_list) :
                        out.payload.data[n].qa_list[k].created_by = out.user

\* C1 witness: an export was generated of a subject under which another user
\* stores an entry with a question and answer the exporting user stores too.
C1_Witness ==
    /\ out.op = "export"
    /\ \E n \in 1..Len(out.selected) :
          LET l == ListOf(subjects, out.selected[n])
          IN \E i, j \in 1..Len(l) :
                /\ l[i].created_by = out.user
                /\ l[j].created_by # out.user
                /\ l[i].question = l[j].question
                /\ l[i].answer = l[j].answer

\* Characters c and d are the same letter, whatever their case.
SameLetter(c, d) ==
    \/ c = d
    \/ {c, d} = {"a", "A"}
    \/ {c, d} = {"b", "B"}

\* Term t occurs in text s when case is ignored.
OccursIgnoringCase(t, s) ==
    \E at \in 0..(Len(s) - Len(t)) :
        \A k \in 1..Len(t) : SameLetter(t[k], s[at + k])

\* The rows of the entries of user u that hold term t, subject after subject
\* in the order of the store, each subject's entries in list order.
RECURSIVE ExpectedResults(_, _, _)
ExpectedResults(d, u, t) ==
    IF d = <<>> THEN <<>>
    ELSE LET wanted(e) == /\ e.created_by = u
                          /\ \/ OccursIgnoringCase(t, e.question)
                             \/ OccursIgnoringCase(t, e.answer)
         IN ItemRows(<<[subject |-> Head(d).subject,
                        qa_list |-> SelectSeq(Head(d).qa_list, wanted)]>>)
            \o ExpectedResults(Tail(d), u, t)

\* C7: a non-empty search term returns the entries of the logged-in user
\* whose question or answer holds the term when case is ignored, each once,
\* subject after subject and in list order within a subject; an empty term
\* runs no search.
C7_SearchCaseInsensitiveOwned ==
    out.op = "search"
        => IF out.term # <<>>
           THEN /\ out.searched
                /\ out.results = ExpectedResults(subjects, out.user, out.term)
           ELSE ~out.searched /\ out.results = <<>>

\* C7 witness: a term typed in upper case found two entries stored in lower
\* case, under two subjects.
C7_Witness ==
    /\ out.op = "search" /\ out.term = <<"B">>
    /\ Len(out.results) = 2
    /\ out.results[1].Subject # out.results[2].Subject

\* C8: registration loads the whole user file, adds its record and writes the
\* whole file back with no lock, so after a process has saved, the file is
\* that process's dict: a record another process saved since this one loaded
\* the file is gone, though both calls return True.
C8_LastWriteWins ==
    out.op = "reg_save"
        => /\ reg_ret[out.proc] = TRUE
           /\ users_file = reg_users[out.proc]
           /\ reg_args[out.proc].username \in DOMAIN users_file
           /\ \A u \in DOMAIN out.users_before :
                 u \notin DOMAIN reg_users[out.proc] => u \notin DOMAIN users_file

\* C8 witness: two processes registered two usernames, both calls returned
\* True, and the file holds one record.
C8_Witness ==
    /\ out.op = "reg_save"
    /\ \A p \in Procs : reg_pc[p] = "returned" /\ reg_ret[p] = TRUE
    /\ \E p, q \in Procs : reg_args[p].username # reg_args[q].username
    /\ Cardinality(DOMAIN users_file) = 1

====
